---------------------------- MODULE Spec2Model ----------------------------
(***************************************************************************)
(* Setup-Demo/app: a FastAPI service with two routes (GET / and            *)
(* POST /heroes/) over one PostgreSQL table, "hero".                       *)
(*                                                                         *)
(* The model follows main.py and database.py statement by statement.  The  *)
(* collaborators the code calls are modelled by what the calls do:         *)
(*   - the database: the list of tables, the committed rows of hero, the   *)
(*     hero_id_seq sequence, and whether the server is reachable (dbUp);   *)
(*   - a Session: an identity, the object added to it, and the row its     *)
(*     open transaction has inserted but not committed;                    *)
(*   - the framework: the lifespan protocol, the resolution of a route's   *)
(*     dependencies and parameters, and the unwinding of the dependency    *)
(*     generators when a request ends.                                     *)
(* An optional value (int | None, a query parameter that may be absent)    *)
(* is a set with at most one element: None is {} and the value v is {v}.   *)
(***************************************************************************)
EXTENDS Integers, Sequences, FiniteSets, TLC

\* Requests the model follows, numbered in the order they arrive; each is
\* served once.  The process may stop and start again any number of times,
\* and the database outlives it.
MaxReqs == 2

Reqs == 1 .. MaxReqs

\* Values of the query parameter `name` a client sends.
Names == {"", "Spiderboy"}

None == {}
Some(v) == {v}
The(o) == CHOOSE v \in o : TRUE

VARIABLES
    phase,        \* the process: Stopped, SchemaEnsured, Serving, Failed
    schemaCalls,  \* calls of create_db_and_tables in the running process
    dbUp,         \* the database server is reachable
    tables,       \* database: the tables, in creation order
    hero,         \* database: the committed rows of hero, in commit order
    hero_id_seq,  \* database: last value of the sequence behind hero.id
    kind,         \* request: "GET" or "POST"
    query,        \* request: the optional query parameter `name`
    pc,           \* request: where its handling stands
    session,      \* request: the optional Session get_session yielded to it
    heroObj,      \* request: the optional Hero instance of create_hero
    sessions,     \* Session objects constructed so far
    open,         \* Sessions that are open
    closes,       \* Session -> times it was closed
    added,        \* Session -> requests whose Hero is pending in it
    uncommitted,  \* Session -> rows its open transaction has inserted
    exc,          \* request: the optional exception it raised, by statement
    inserts,      \* request: INSERT statements attempted for its object
    storedBefore, \* request: the ids hero held when the request arrived
    resp          \* request: the optional response

dbVars == <<dbUp, tables, hero, hero_id_seq>>
procVars == <<phase, schemaCalls>>
sessVars == <<sessions, open, closes, added, uncommitted>>
reqVars == <<kind, query, pc, session, heroObj, exc, inserts, storedBefore, resp>>
vars == <<procVars, dbVars, sessVars, reqVars>>

SessionIds == 1 .. MaxReqs

(***************************************************************************)
(* main.py: the Hero table model and the two payload shapes.               *)
(***************************************************************************)
\* class Hero(SQLModel, table=True): id and age default to None.
Hero(name, secret_name) ==
    [id |-> None, name |-> name, age |-> None, secret_name |-> secret_name]

\* A variant of SecretName with the prefix spelled "secret_".
SecretName_respelled(name) == "secret_" \o name

\* f"secrete_{name}"
SecretName(name) == "secrete_" \o name

\* The table SQLModel.metadata holds: Hero's __tablename__.
Metadata == <<"hero">>

Greeting == [message |-> "Hello World Winnie"]

Response(status, body) == Some([status |-> status, body |-> body])

(***************************************************************************)
(* database.py                                                             *)
(***************************************************************************)
RECURSIVE CreateAll(_, _)
\* SQLModel.metadata.create_all(engine): checkfirst is on, so CREATE TABLE
\* is issued only for the tables of the metadata the database lacks.
CreateAll(existing, todo) ==
    IF todo = <<>> THEN existing
    ELSE LET t == Head(todo)
             has == \E i \in 1 .. Len(existing) : existing[i] = t
         IN CreateAll(IF has THEN existing ELSE Append(existing, t), Tail(todo))

\* A variant of create_db_and_tables that issues CREATE TABLE unchecked.
create_all_unchecked(existing) == existing \o Metadata

\* def create_db_and_tables(): the tables afterwards.
create_db_and_tables(existing) == CreateAll(existing, Metadata)

\* A variant of NextVal: a constant column default in place of the sequence.
NextVal_constant(seq) == 1

\* nextval('hero_id_seq'), the default of the SERIAL primary key.
NextVal(seq) == seq + 1

\* INSERT INTO hero (name, age, secret_name) VALUES (...) RETURNING id
InsertRow(obj, seq) == [obj EXCEPT !.id = Some(NextVal(seq))]

\* SELECT ... FROM hero WHERE id = :pk, as session.refresh issues it.
SelectById(rows, id) ==
    LET hits == {i \in 1 .. Len(rows) : rows[i].id = id}
    IN IF hits = {} THEN None ELSE Some(rows[CHOOSE i \in hits : TRUE])

\* A variant of CommitRows that replaces the stored rows of the same name.
CommitRows_upsert(rows, new) ==
    LET Kept(row) == \A k \in 1 .. Len(new) : new[k].name # row.name
    IN SelectSeq(rows, Kept) \o new

\* COMMIT: the rows of the transaction become rows of the table.
CommitRows(rows, new) == rows \o new

\* A variant of NewSession: one module-level Session handed to every request.
NewSession_shared(made) == 1

\* Session(engine): a new Session object, distinct from every earlier one.
NewSession(made) == Cardinality(made) + 1

HasTable(t) == \E i \in 1 .. Len(tables) : tables[i] = t

\* A statement reaches the hero table: the server answers and the table is there.
HeroUsable == dbUp /\ HasTable("hero")

Ids(rows) == UNION {rows[i].id : i \in 1 .. Len(rows)}

(***************************************************************************)
(* Init: a stopped process and an empty database.                          *)
(***************************************************************************)
Init ==
    /\ phase = "Stopped"
    /\ schemaCalls = 0
    /\ dbUp \in BOOLEAN
    /\ tables = <<>>
    /\ hero = <<>>
    /\ hero_id_seq = 0
    /\ kind = [r \in Reqs |-> "none"]
    /\ query = [r \in Reqs |-> None]
    /\ pc = [r \in Reqs |-> "idle"]
    /\ session = [r \in Reqs |-> None]
    /\ heroObj = [r \in Reqs |-> None]
    /\ exc = [r \in Reqs |-> None]
    /\ inserts = [r \in Reqs |-> 0]
    /\ storedBefore = [r \in Reqs |-> {}]
    /\ resp = [r \in Reqs |-> None]
    /\ sessions = {}
    /\ open = {}
    /\ closes = [s \in SessionIds |-> 0]
    /\ added = [s \in SessionIds |-> {}]
    /\ uncommitted = [s \in SessionIds |-> <<>>]

InFlight(r) == pc[r] \notin {"idle", "done"}

(***************************************************************************)
(* The database server becomes unreachable, or reachable again.            *)
(***************************************************************************)
DbFault ==
    /\ dbUp' = ~dbUp
    /\ UNCHANGED <<tables, hero, hero_id_seq, procVars, sessVars, reqVars>>

(***************************************************************************)
(* main.py, lifespan: create_db_and_tables() and then yield.               *)
(***************************************************************************)
\* A variant of lifespan_startup that catches the exception of create_all
\* and goes on to the yield.
lifespan_startup_swallowing ==
    /\ phase = "Stopped"
    /\ schemaCalls' = schemaCalls + 1
    /\ tables' = IF dbUp THEN create_db_and_tables(tables) ELSE tables
    /\ phase' = "SchemaEnsured"
    /\ UNCHANGED <<dbUp, hero, hero_id_seq, sessVars, reqVars>>

\* Line 9.  An exception of create_all leaves the lifespan before its yield:
\* the startup fails and the application serves nothing.
lifespan_startup ==
    /\ phase = "Stopped"
    /\ schemaCalls' = schemaCalls + 1
    /\ IF dbUp
       THEN /\ tables' = create_db_and_tables(tables)
            /\ phase' = "SchemaEnsured"
       ELSE /\ tables' = tables
            /\ phase' = "Failed"
    /\ UNCHANGED <<dbUp, hero, hero_id_seq, sessVars, reqVars>>

\* Line 10: the yield; the application starts accepting requests.
lifespan_yield ==
    /\ phase = "SchemaEnsured"
    /\ phase' = "Serving"
    /\ UNCHANGED <<schemaCalls, dbVars, sessVars, reqVars>>

\* The server stops once no request is being handled; nothing follows the
\* yield of lifespan, and the database keeps its contents.
Shutdown ==
    /\ phase = "Serving"
    /\ \A r \in Reqs : ~InFlight(r)
    /\ phase' = "Stopped"
    /\ schemaCalls' = 0
    /\ UNCHANGED <<dbVars, sessVars, reqVars>>

\* The process whose startup failed exits.
StartupExit ==
    /\ phase = "Failed"
    /\ phase' = "Stopped"
    /\ schemaCalls' = 0
    /\ UNCHANGED <<dbVars, sessVars, reqVars>>

(***************************************************************************)
(* database.py, get_session: with Session(engine) as session: yield session*)
(***************************************************************************)
\* Up to the yield.  Session(engine) connects to nothing yet.
get_session_enter(r) ==
    LET s == NewSession(sessions)
    IN /\ sessions' = sessions \cup {s}
       /\ open' = open \cup {s}
       /\ session' = [session EXCEPT ![r] = Some(s)]
       /\ UNCHANGED <<closes, added, uncommitted>>

\* A variant of get_session_exit without the with block: session.close()
\* follows the yield and is skipped when the request did not return.
get_session_exit_on_return(r) ==
    IF pc[r] = "L35"
    THEN LET s == The(session[r])
         IN /\ open' = open \ {s}
            /\ closes' = [closes EXCEPT ![s] = @ + 1]
            /\ added' = [added EXCEPT ![s] = {}]
            /\ uncommitted' = [uncommitted EXCEPT ![s] = <<>>]
            /\ UNCHANGED sessions
    ELSE UNCHANGED sessVars

\* After the yield, however the request ended: the with block closes the
\* Session, which rolls back what its transaction has not committed.
get_session_exit(r) ==
    LET s == The(session[r])
    IN /\ open' = open \ {s}
       /\ closes' = [closes EXCEPT ![s] = @ + 1]
       /\ added' = [added EXCEPT ![s] = {}]
       /\ uncommitted' = [uncommitted EXCEPT ![s] = <<>>]
       /\ UNCHANGED sessions

(***************************************************************************)
(* main.py: the routes.  A request is accepted by a serving process; the   *)
(* requests are numbered in the order they arrive.                         *)
(***************************************************************************)
Accepts(r) ==
    /\ phase = "Serving"
    /\ pc[r] = "idle"
    /\ \A p \in Reqs : p < r => pc[p] # "idle"

\* A variant of get that takes the Session dependency.
get_with_session(r) ==
    /\ Accepts(r)
    /\ kind' = [kind EXCEPT ![r] = "GET"]
    /\ storedBefore' = [storedBefore EXCEPT ![r] = Ids(hero)]
    /\ resp' = [resp EXCEPT ![r] = Response(200, Greeting)]
    /\ sessions' = sessions \cup {NewSession(sessions)}
    /\ session' = [session EXCEPT ![r] = Some(NewSession(sessions))]
    /\ pc' = [pc EXCEPT ![r] = "done"]
    /\ UNCHANGED <<procVars, dbVars, open, closes, added, uncommitted, query,
                   heroObj, exc, inserts>>

\* Lines 25-27: GET / arrives and async def get() answers it; the route has
\* no parameters and no dependencies.
get(r) ==
    /\ Accepts(r)
    /\ kind' = [kind EXCEPT ![r] = "GET"]
    /\ storedBefore' = [storedBefore EXCEPT ![r] = Ids(hero)]
    /\ resp' = [resp EXCEPT ![r] = Response(200, Greeting)]
    /\ pc' = [pc EXCEPT ![r] = "done"]
    /\ UNCHANGED <<procVars, dbVars, sessVars, query, session, heroObj, exc,
                   inserts>>

\* A variant of validate for a handler that reads the parameter itself and
\* raises KeyError when it is absent.
validate_in_handler(q) == IF q = None THEN "raise" ELSE "L31"

\* Line 30, `name: str`: a required query parameter; any string is a str.
\* Where the request goes next.
validate(q) == IF q = None THEN "invalid" ELSE "L31"

\* Lines 29-30: POST /heroes/ arrives, with or without ?name=.  The
\* dependency of `session: SessionDep` is entered, then the parameters are
\* validated; create_hero is called when they are valid.
post_heroes(r, q) ==
    /\ Accepts(r)
    /\ kind' = [kind EXCEPT ![r] = "POST"]
    /\ query' = [query EXCEPT ![r] = q]
    /\ storedBefore' = [storedBefore EXCEPT ![r] = Ids(hero)]
    /\ get_session_enter(r)
    /\ pc' = [pc EXCEPT ![r] = validate(q)]
    /\ UNCHANGED <<procVars, dbVars, heroObj, exc, inserts, resp>>

(***************************************************************************)
(* main.py 29-35: def create_hero(name, session).  A def route runs on a   *)
(* worker thread, so the requests interleave between the statements that   *)
(* reach the database.                                                     *)
(***************************************************************************)
\* Line 31: hero = Hero(name=name, secret_name=f"secrete_{name}")
\* Line 32: session.add(hero); the object is pending, nothing is sent.
create_hero_add(r) ==
    /\ pc[r] = "L31"
    /\ LET name == The(query[r])
       IN heroObj' = [heroObj EXCEPT ![r] = Some(Hero(name, SecretName(name)))]
    /\ added' = [added EXCEPT ![The(session[r])] = @ \cup {r}]
    /\ pc' = [pc EXCEPT ![r] = "L33"]
    /\ UNCHANGED <<procVars, dbVars, sessions, open, closes, uncommitted, kind,
                   query, session, exc, inserts, storedBefore, resp>>

\* The place of q among the pending objects of a flush, in the order added.
Rank(pending, q) == Cardinality({p \in pending : p <= q})

\* The rows a flush inserts for the pending objects, each with its new id.
FlushRows(pending, seq) ==
    [k \in 1 .. Cardinality(pending) |->
        LET q == CHOOSE p \in pending : Rank(pending, p) = k
        IN InsertRow(The(heroObj[q]), seq + k - 1)]

\* Line 33, session.commit(), first half: the flush sends the INSERT of
\* every pending object inside the Session's transaction; RETURNING id
\* fills the object's id.  A failure raises out of commit.
create_hero_flush(r) ==
    /\ pc[r] = "L33"
    /\ LET s == The(session[r])
           pending == added[s]
           rows == FlushRows(pending, hero_id_seq)
       IN /\ inserts' = [q \in Reqs |-> IF q \in pending THEN inserts[q] + 1
                                                        ELSE inserts[q]]
          /\ IF HeroUsable
             THEN /\ hero_id_seq' = hero_id_seq + Len(rows)
                  /\ uncommitted' = [uncommitted EXCEPT ![s] = @ \o rows]
                  /\ added' = [added EXCEPT ![s] = {}]
                  /\ heroObj' = [q \in Reqs |->
                                    IF q \in pending
                                    THEN Some(rows[Rank(pending, q)])
                                    ELSE heroObj[q]]
                  /\ pc' = [pc EXCEPT ![r] = "L33c"]
                  /\ exc' = exc
             ELSE /\ pc' = [pc EXCEPT ![r] = "raise"]
                  /\ exc' = [exc EXCEPT ![r] = Some("commit")]
                  /\ UNCHANGED <<hero_id_seq, uncommitted, added, heroObj>>
    /\ UNCHANGED <<procVars, dbUp, tables, hero, sessions, open, closes, kind,
                   query, session, storedBefore, resp>>

\* A variant of create_hero_commit that, when COMMIT fails, rolls back, adds
\* the object again and commits once more.
create_hero_commit_retrying(r) ==
    /\ pc[r] = "L33c"
    /\ LET s == The(session[r])
       IN IF HeroUsable
          THEN /\ hero' = CommitRows(hero, uncommitted[s])
               /\ uncommitted' = [uncommitted EXCEPT ![s] = <<>>]
               /\ pc' = [pc EXCEPT ![r] = "L34"]
               /\ added' = added
          ELSE /\ pc' = [pc EXCEPT ![r] = "L33"]
               /\ uncommitted' = [uncommitted EXCEPT ![s] = <<>>]
               /\ added' = [added EXCEPT ![s] = {r}]
               /\ hero' = hero
    /\ UNCHANGED <<procVars, dbUp, tables, hero_id_seq, sessions, open, closes,
                   kind, query, session, heroObj, exc, inserts, storedBefore,
                   resp>>

\* Line 33, second half: COMMIT.  The rows of the transaction reach the
\* table at once, or the commit raises and none of them does.
create_hero_commit(r) ==
    /\ pc[r] = "L33c"
    /\ LET s == The(session[r])
       IN IF HeroUsable
          THEN /\ hero' = CommitRows(hero, uncommitted[s])
               /\ uncommitted' = [uncommitted EXCEPT ![s] = <<>>]
               /\ pc' = [pc EXCEPT ![r] = "L34"]
               /\ exc' = exc
          ELSE /\ pc' = [pc EXCEPT ![r] = "raise"]
               /\ exc' = [exc EXCEPT ![r] = Some("commit")]
               /\ UNCHANGED <<hero, uncommitted>>
    /\ UNCHANGED <<procVars, dbUp, tables, hero_id_seq, sessions, open, closes,
                   added, kind, query, session, heroObj, inserts, storedBefore,
                   resp>>

\* Line 34: session.refresh(hero) loads the object again from its row.
create_hero_refresh(r) ==
    /\ pc[r] = "L34"
    /\ LET row == SelectById(hero, The(heroObj[r]).id)
       IN IF HeroUsable /\ row # None
          THEN /\ heroObj' = [heroObj EXCEPT ![r] = row]
               /\ pc' = [pc EXCEPT ![r] = "L35"]
               /\ exc' = exc
          ELSE /\ pc' = [pc EXCEPT ![r] = "raise"]
               /\ exc' = [exc EXCEPT ![r] = Some("refresh")]
               /\ heroObj' = heroObj
    /\ UNCHANGED <<procVars, dbVars, sessVars, kind, query, session, inserts,
                   storedBefore, resp>>

\* Line 35: return hero.  The object is the body of a 200 response, and the
\* request's dependencies are unwound.
create_hero_return(r) ==
    /\ pc[r] = "L35"
    /\ resp' = [resp EXCEPT ![r] = Response(200, The(heroObj[r]))]
    /\ get_session_exit(r)
    /\ pc' = [pc EXCEPT ![r] = "done"]
    /\ UNCHANGED <<procVars, dbVars, kind, query, session, heroObj, exc,
                   inserts, storedBefore>>

\* The parameters did not validate: create_hero is not called, the answer
\* is 422 and the request's dependencies are unwound.
validation_error(r) ==
    /\ pc[r] = "invalid"
    /\ resp' = [resp EXCEPT ![r] = Response(422, [detail |-> "missing"])]
    /\ get_session_exit(r)
    /\ pc' = [pc EXCEPT ![r] = "done"]
    /\ UNCHANGED <<procVars, dbVars, kind, query, session, heroObj, exc,
                   inserts, storedBefore>>

\* create_hero raised: the exception passes through get_session, which
\* closes the Session, and the answer is 500.
server_error(r) ==
    /\ pc[r] = "raise"
    /\ resp' = [resp EXCEPT ![r] = Response(500, [detail |-> "Internal Server Error"])]
    /\ get_session_exit(r)
    /\ pc' = [pc EXCEPT ![r] = "done"]
    /\ UNCHANGED <<procVars, dbVars, kind, query, session, heroObj, exc,
                   inserts, storedBefore>>

Next ==
    \/ DbFault
    \/ lifespan_startup
    \/ lifespan_yield
    \/ Shutdown
    \/ StartupExit
    \/ \E r \in Reqs : get(r)
    \/ \E r \in Reqs, q \in {None} \cup {Some(n) : n \in Names} : post_heroes(r, q)
    \/ \E r \in Reqs : create_hero_add(r)
    \/ \E r \in Reqs : create_hero_flush(r)
    \/ \E r \in Reqs : create_hero_commit(r)
    \/ \E r \in Reqs : create_hero_refresh(r)
    \/ \E r \in Reqs : create_hero_return(r)
    \/ \E r \in Reqs : validation_error(r)
    \/ \E r \in Reqs : server_error(r)

Spec == Init /\ [][Next]_vars

(***************************************************************************)
(* Properties                                                              *)
(***************************************************************************)
Ok(r) == kind[r] = "POST" /\ resp[r] # None /\ The(resp[r]).status = 200
Body(r) == The(resp[r]).body
Stored(row) == \E i \in 1 .. Len(hero) : hero[i] = row
Closed(r) ==
    session[r] # None =>
        The(session[r]) \notin open /\ closes[The(session[r])] = 1

\* C1: every stored hero has secret_name = "secrete_" + name and age null,
\* and a successful POST /heroes/ answers with a stored record whose name is
\* the name sent, whose secret_name is "secrete_" + that name and whose age
\* is null.
C1_SecretNameDerived ==
    /\ \A i \in 1 .. Len(hero) :
          /\ hero[i].secret_name = "secrete_" \o hero[i].name
          /\ hero[i].age = {}
    /\ \A r \in Reqs :
          Ok(r) => /\ Body(r).name = The(query[r])
                   /\ Body(r).secret_name = "secrete_" \o The(query[r])
                   /\ Body(r).age = {}
                   /\ Stored(Body(r))

C1_Witness ==
    \E r \in Reqs :
        /\ Ok(r)
        /\ query[r] = {"Spiderboy"}
        /\ Body(r).secret_name = "secrete_Spiderboy"
        /\ Stored(Body(r))

\* C2: the ids of the stored heroes are pairwise distinct; a successful
\* POST /heroes/ answers with a non-null id that the sequence of the table
\* gave out, that a stored record carries, and that no record stored when
\* the request arrived had; two successful creations have different ids.
C2_FreshIds ==
    /\ \A i, j \in 1 .. Len(hero) : i # j => hero[i].id # hero[j].id
    /\ \A r \in Reqs :
          Ok(r) => /\ Body(r).id # {}
                   /\ The(Body(r).id) \in 1 .. hero_id_seq
                   /\ Body(r).id \cap storedBefore[r] = {}
                   /\ Stored(Body(r))
    /\ \A r1, r2 \in Reqs :
          (r1 # r2 /\ Ok(r1) /\ Ok(r2)) => Body(r1).id # Body(r2).id

\* Two creations with the same name, one after the other, both answered 200.
C2_Witness ==
    \E r1, r2 \in Reqs :
        /\ r1 # r2 /\ Ok(r1) /\ Ok(r2)
        /\ query[r1] = query[r2]
        /\ Body(r1).id \subseteq storedBefore[r2]
        /\ Body(r1).id # Body(r2).id

\* C3: the step that serves GET / answers 200 with the fixed greeting and
\* no other outcome, whatever the state of the process and the database,
\* and changes neither the database nor any Session.
C3_GetFixedNoEffect ==
    [][\A r \in Reqs :
          (kind[r] # "GET" /\ kind'[r] = "GET") =>
              /\ pc'[r] = "done"
              /\ resp'[r] = {[status |-> 200,
                              body |-> [message |-> "Hello World Winnie"]]}
              /\ session'[r] = {}
              /\ UNCHANGED <<dbVars, sessVars>>]_vars

\* GET / answered while the database is down and a creation is under way.
C3_Witness ==
    \E r, p \in Reqs :
        /\ kind[r] = "GET" /\ pc[r] = "done"
        /\ resp[r] = Response(200, Greeting)
        /\ ~dbUp
        /\ pc[p] = "L33c"

\* C4: a POST /heroes/ without name never enters create_hero and never
\* raises; once it has ended its answer is 422, no INSERT was attempted for
\* it, it built no Hero, and the session it acquired is closed.
C4_MissingNameIs422 ==
    \A r \in Reqs :
        (kind[r] = "POST" /\ query[r] = {}) =>
            /\ pc[r] \in {"invalid", "done"}
            /\ exc[r] = {}
            /\ inserts[r] = 0
            /\ heroObj[r] = {}
            /\ pc[r] = "done" => /\ The(resp[r]).status = 422
                                 /\ session[r] # {}
                                 /\ Closed(r)

C4_Witness ==
    \E r \in Reqs :
        /\ kind[r] = "POST" /\ query[r] = {} /\ pc[r] = "done"
        /\ The(resp[r]).status = 422
        /\ session[r] # {} /\ Closed(r)

NoDuplicateTable ==
    \A i, j \in 1 .. Len(tables) : i # j => tables[i] # tables[j]

\* C5: no table exists twice, and a call of create_db_and_tables that finds
\* the hero table in place and the database reachable raises nothing and
\* leaves the tables, the rows of hero and its sequence as they were.
C5_CreateSchemaIdempotent ==
    /\ []NoDuplicateTable
    /\ [][(phase = "Stopped" /\ phase' # "Stopped" /\ dbUp /\ HasTable("hero")) =>
              /\ phase' = "SchemaEnsured"
              /\ UNCHANGED <<tables, hero, hero_id_seq>>]_vars

\* The second call has been made, over a table that holds a record.
C5_Witness ==
    /\ phase = "SchemaEnsured"
    /\ Len(hero) > 0
    /\ tables = <<"hero">>

\* C6: create_db_and_tables has run exactly once in a process that is past
\* its startup, never in a stopped one; a process serves only after
\* SchemaEnsured, which it reaches only from Stopped, and with the hero
\* table in place; one whose startup failed only stops; requests arrive,
\* and are handled, only in a serving process that has the table.
C6_StartupOrder ==
    /\ [](/\ phase \in {"Stopped", "SchemaEnsured", "Serving", "Failed"}
          /\ schemaCalls = (IF phase = "Stopped" THEN 0 ELSE 1)
          /\ phase \in {"SchemaEnsured", "Serving"} => HasTable("hero")
          /\ \A r \in Reqs : InFlight(r) => phase = "Serving")
    /\ [][/\ (phase' = "Serving" /\ phase # "Serving") => phase = "SchemaEnsured"
          /\ (phase' = "SchemaEnsured" /\ phase # "SchemaEnsured") => phase = "Stopped"
          /\ phase = "Failed" => phase' \in {"Failed", "Stopped"}
          /\ \A r \in Reqs :
                (pc[r] = "idle" /\ pc'[r] # "idle") => phase = "Serving"]_vars

\* A creation is being handled by a serving process that has called
\* create_db_and_tables once and has the table.
C6_Witness ==
    /\ phase = "Serving"
    /\ schemaCalls = 1
    /\ \E r \in Reqs : pc[r] = "L33" /\ HasTable("hero")

\* C7: no Session is closed twice; an open Session belongs to a request
\* that is being handled; a request that has ended, by a return, a
\* validation failure or an exception of commit or refresh, has its Session
\* closed exactly once; when no request is being handled no Session is open.
C7_SessionReleased ==
    /\ \A s \in SessionIds : closes[s] <= 1
    /\ open \subseteq sessions
    /\ \A s \in open : \E r \in Reqs : InFlight(r) /\ session[r] = {s}
    /\ \A r \in Reqs :
          /\ pc[r] = "done" => Closed(r)
          /\ (InFlight(r) /\ session[r] # {}) =>
                The(session[r]) \in open /\ closes[The(session[r])] = 0
    /\ (\A r \in Reqs : ~InFlight(r)) => open = {}

\* One request ended by an exception and one by a return; both Sessions
\* are closed.
C7_Witness ==
    \E r1, r2 \in Reqs :
        /\ pc[r1] = "done" /\ exc[r1] # {} /\ session[r1] # {} /\ Closed(r1)
        /\ pc[r2] = "done" /\ Ok(r2) /\ Closed(r2)
        /\ open = {}

\* C8: the INSERT of a request is attempted at most once; a request whose
\* commit raised goes nowhere but to its end, where the answer is 500 and
\* not a hero, and the table holds no record with the id of its object.
C8_InsertFailureSurfaced ==
    \A r \in Reqs :
        /\ inserts[r] <= 1
        /\ exc[r] = {"commit"} =>
              /\ pc[r] \in {"raise", "done"}
              /\ inserts[r] = 1
              /\ The(heroObj[r]).id \cap Ids(hero) = {}
              /\ ~Stored(The(heroObj[r]))
              /\ pc[r] = "done" => /\ The(resp[r]).status = 500
                                   /\ The(resp[r]).body # The(heroObj[r])

\* The INSERT was sent, the COMMIT failed, and the request ended with 500
\* while another request's record is stored.
C8_Witness ==
    \E r \in Reqs :
        /\ exc[r] = {"commit"} /\ pc[r] = "done"
        /\ The(heroObj[r]).id # {}
        /\ The(resp[r]).status = 500
        /\ Len(hero) > 0

\* The requests whose COMMIT went through.
Committed == {r \in Reqs : pc[r] \in {"L34", "L35"} \/ Ok(r) \/ exc[r] = {"refresh"}}

\* C9: no two requests have the same Session, and a Session holds only
\* the object of its own request; rows that transactions hold or the table
\* stores have pairwise distinct ids; every successful creation sent one
\* INSERT and has exactly one stored record, with its own id; the table
\* holds one record per request whose COMMIT went through.
C9_ConcurrentCreates ==
    /\ \A r1, r2 \in Reqs : r1 # r2 => session[r1] \cap session[r2] = {}
    /\ \A s \in SessionIds : \A r \in added[s] : session[r] = {s}
    /\ \A r1, r2 \in Reqs :
          (r1 # r2 /\ heroObj[r1] # {} /\ heroObj[r2] # {}
              /\ The(heroObj[r1]).id # {}) =>
                  The(heroObj[r1]).id # The(heroObj[r2]).id
    /\ \A r \in Reqs :
          Ok(r) => /\ inserts[r] = 1
                   /\ Cardinality({i \in 1 .. Len(hero) : hero[i].id = Body(r).id}) = 1
    /\ Len(hero) = Cardinality(Committed)

\* Two creations under way at once, each with its own Session and its own
\* inserted, uncommitted row.
C9_Witness ==
    \E r1, r2 \in Reqs :
        /\ r1 # r2
        /\ pc[r1] = "L33c" /\ pc[r2] = "L33c"
        /\ session[r1] # session[r2]
        /\ The(heroObj[r1]).id # The(heroObj[r2]).id

=============================================================================
